---- MODULE Spec2Model ----
(***************************************************************************)
(* Model of the b2py client (src/b2py/b2.py): the generic caller _call,    *)
(* the authorization handshake, the single-request operations and the      *)
(* small / large upload paths of upload_file.                               *)
(*                                                                         *)
(* One client instance is live at a time; constructing a new instance      *)
(* (B2.__init__) replaces it.  The default `headers` mapping of _call is    *)
(* created once when the function is defined, so it is shared by every      *)
(* call and every instance and is modelled as a variable of its own.        *)
(* Every network exchange (request sent, response received) is one step;    *)
(* the remote side answers with any status and any body form.  A response   *)
(* with a status below 400 is assumed to carry the documented JSON fields.  *)
(***************************************************************************)
EXTENDS Integers, Sequences, FiniteSets, TLC

VARIABLES
  auth_token,        \* self.auth_token
  api_url,           \* self.api_url
  download_url,      \* self.download_url
  file_part_size,    \* self.file_part_size
  upload_urls,       \* self.upload_urls: bucket id -> (upload_url, auth_token)
  file_upload_urls,  \* self.file_upload_urls: file id -> (upload_url, auth_token)
  default_headers,   \* the default value of _call's `headers` parameter
  constructed,       \* B2.__init__ of the live instance returned normally
  pc,                \* position of the operation in progress
  entry,             \* the method the caller invoked
  bucket_id,         \* argument of the upload in progress
  contents,          \* argument of the upload in progress
  file_id,           \* local of _upload_large_file
  parts,             \* local of _upload_large_file
  hashes,            \* local of _upload_large_file (built part by part)
  log,               \* requests handed to the HTTP transport by the operation
  err                \* exception that ended the operation, or NoErr

vars == <<auth_token, api_url, download_url, file_part_size, upload_urls,
          file_upload_urls, default_headers, constructed, pc, entry,
          bucket_id, contents, file_id, parts, hashes, log, err>>

session == <<auth_token, api_url, download_url, file_part_size, constructed>>
caches == <<upload_urls, file_upload_urls>>
locals == <<bucket_id, contents, file_id, parts, hashes>>

-----------------------------------------------------------------------------
(* Bounds and value sets *)

MaxLen == 3
MaxPartSize == 2

\* one payload of each length, its bytes pairwise distinct: every slice of it
\* shows the positions it was cut from
Payloads == {[i \in 1..n |-> i] : n \in 0..MaxLen}
PartSizes == 1..MaxPartSize

None == "None"
SessionTokens == {"", "tokA"}
Buckets == {"b1", "b2"}
FileIds == {"f1", "f2"}
\* (uploadUrl, authorizationToken) pairs the remote side hands out
UploadTargets == {<<"https://pod-000/upload/1", "upTok1">>,
                  <<"https://pod-000/upload/2", "upTok2">>}
PartUploadTargets == {<<"https://pod-000/upload_part/1", "partTok1">>}
RemoteApiUrl == "https://api000.backblazeb2.com"
RemoteDownloadUrl == "https://f000.backblazeb2.com"

B2_API_HOST == "https://api.backblazeb2.com"
B2_API_VERSION == "/b2api/v2"
B2_API_BASE == B2_API_HOST \o B2_API_VERSION

Statuses == {200, 401, 500}
\* status code and whether the body decodes as JSON
Responses == {r \in [status : Statuses, json : BOOLEAN] :
                r.status < 400 => r.json}

-----------------------------------------------------------------------------
(* Mappings (Python dict) *)

EmptyMap == [k \in {} |-> ""]
Put(h, k, v) == [n \in (DOMAIN h) \cup {k} |-> IF n = k THEN v ELSE h[n]]

-----------------------------------------------------------------------------
(* utils *)

construct_url(base, endpoint) == base \o endpoint

\* hashlib.sha1(...).hexdigest(): a digest determined by the bytes
sha1(bytes) == <<"sha1", bytes>>

\* a digest that is the digest of no payload of the model
BadDigest == sha1(<<0>>)
\* stands for the digest of an answer that carries none
NoDigest == <<"sha1", "none">>

Min(a, b) == IF a < b THEN a ELSE b

\* Python's seq[lo:hi] for 0 <= lo <= hi (indices clamped to the length)
Slice(seq, lo, hi) ==
  IF lo >= Len(seq) THEN <<>>
  ELSE [k \in 1..(Min(hi, Len(seq)) - lo) |-> seq[lo + k]]

-----------------------------------------------------------------------------
(* Errors *)

NoErr == [type |-> "none", kind |-> "", code |-> 0, where |-> ""]
B2Error(kind, code, where) ==
  [type |-> "B2Error", kind |-> kind, code |-> code, where |-> where]
\* raised by response.json() on a body that is not JSON
JSONDecodeError == [type |-> "JSONDecodeError", kind |-> "", code |-> 0, where |-> ""]

-----------------------------------------------------------------------------
(* B2.authorized and B2._call *)

authorizedNoneOnly == auth_token # None
authorized == auth_token # None /\ auth_token # ""

\* A request is [host, endpoint, dflt, headers, params, requires_auth,
\* method, data]; dflt says the headers argument was omitted.
Request(host, endpoint, dflt, headers, params, requires_auth, method, data) ==
  [host |-> host, endpoint |-> endpoint, dflt |-> dflt, headers |-> headers,
   params |-> params, requires_auth |-> requires_auth, method |-> method,
   data |-> data]

call_unauthorized(rq) == rq.requires_auth /\ ~authorized

\* the mapping object _call hands to the transport
call_headers(rq) ==
  LET h == IF rq.dflt THEN default_headers ELSE rq.headers
  IN  IF rq.requires_auth THEN Put(h, "Authorization", auth_token) ELSE h

\* the default mapping after the call: line 78 writes into it when the
\* headers argument was omitted
call_default(rq) ==
  IF rq.dflt /\ rq.requires_auth /\ authorized
  THEN Put(default_headers, "Authorization", auth_token)
  ELSE default_headers

\* what _call raises for request rq answered by rs
call_error(rq, rs) ==
  IF call_unauthorized(rq) THEN B2Error("unauthorized", 0, rq.endpoint)
  ELSE IF rs.status >= 400
       THEN IF rs.json
            THEN B2Error("status", rs.status, construct_url(rq.host, rq.endpoint))
            ELSE JSONDecodeError
       ELSE NoErr

\* the record of one exchange with the transport; `passed` is the headers
\* argument as the call site wrote it, `sha` the contentSha1 of the answer
LogEntry(rq, rs, sha) ==
  [endpoint |-> rq.endpoint,
   url |-> construct_url(rq.host, rq.endpoint),
   method |-> rq.method,
   sent |-> call_headers(rq),
   passed |-> IF rq.dflt THEN EmptyMap ELSE rq.headers,
   params |-> rq.params,
   requires_auth |-> rq.requires_auth,
   token |-> auth_token,
   data |-> rq.data,
   status |-> rs.status,
   json |-> rs.json,
   sha |-> sha]

\* the requests made so far (lg) after one more _call
call_log(lg, rq, rs, sha) ==
  IF call_unauthorized(rq) THEN lg ELSE Append(lg, LogEntry(rq, rs, sha))

\* an exception leaves the operation; otherwise it goes on at `next`
propagateSwallow(e, next) == next
propagate(e, next) == IF e # NoErr THEN "idle" ELSE next


-----------------------------------------------------------------------------
(* Decisions of the upload paths *)

upload_file_largeInclusive(c) == Len(c) >= file_part_size
\* line 282: the payload goes the large way
upload_file_large(c) == Len(c) > file_part_size

num_partsNoExtra(c) == Len(c) \div file_part_size
\* line 252: int(len(contents) / self.file_part_size) + 1
num_parts(c) == (Len(c) \div file_part_size) + 1

split_partsShifted(c) ==
  [i \in 1..num_parts(c) |->
     Slice(c, (i - 1) * file_part_size + 1, i * file_part_size + 1)]
\* lines 256-259: parts[i] = contents[i*size:(i+1)*size], here 1-based
split_parts(c) ==
  [i \in 1..num_parts(c) |->
     Slice(c, (i - 1) * file_part_size, i * file_part_size)]

\* line 261: the part at 0-based position i is uploaded as part i + 1
part_number(i) == i + 1

need_upload_urlAlways(b) == TRUE
\* line 286
need_upload_url(b) == b \notin DOMAIN upload_urls

\* line 202
need_part_url(f) == f \notin DOMAIN file_upload_urls

recorded_hashLocal(part, sha) == sha1(part)
\* line 261: the hash kept for a part is the contentSha1 of the response
recorded_hash(part, sha) == sha

-----------------------------------------------------------------------------
(* Initial state: the module is loaded, no instance exists yet *)

Init ==
  /\ auth_token = None
  /\ api_url = ""
  /\ download_url = ""
  /\ file_part_size = 0
  /\ upload_urls = EmptyMap
  /\ file_upload_urls = EmptyMap
  /\ default_headers = EmptyMap
  /\ constructed = FALSE
  /\ pc = "idle"
  /\ entry = ""
  /\ bucket_id = ""
  /\ contents = <<>>
  /\ file_id = ""
  /\ parts = <<>>
  /\ hashes = <<>>
  /\ log = <<>>
  /\ err = NoErr

\* a method is invoked: its locals and the record of its requests start empty
Enter(name, b, c) ==
  /\ entry' = name
  /\ bucket_id' = b
  /\ contents' = c
  /\ file_id' = ""
  /\ parts' = <<>>
  /\ hashes' = <<>>

-----------------------------------------------------------------------------
(* B2.__init__ with B2._authorize *)

authorize_request ==
  Request(B2_API_BASE, "/b2_authorize_account", TRUE, EmptyMap, EmptyMap,
          FALSE, "get", <<>>)

B2_init ==
  /\ pc = "idle"
  /\ \E rs \in Responses, tok \in SessionTokens, size \in PartSizes :
       LET rq == authorize_request
           e == call_error(rq, rs)
       IN  /\ log' = <<[LogEntry(rq, rs, NoDigest) EXCEPT !.token = None]>>
           /\ default_headers' = call_default(rq)
           /\ upload_urls' = EmptyMap
           /\ file_upload_urls' = EmptyMap
           /\ IF e # NoErr
              THEN /\ auth_token' = None
                   /\ api_url' = ""
                   /\ download_url' = ""
                   /\ file_part_size' = 0
                   /\ constructed' = FALSE
                   /\ err' = e
              ELSE /\ auth_token' = tok
                   /\ api_url' = RemoteApiUrl \o B2_API_VERSION
                   /\ download_url' = RemoteDownloadUrl
                   /\ file_part_size' = size
                   /\ constructed' = authorized'
                   /\ err' = IF authorized' THEN NoErr
                             ELSE B2Error("authorize", 0, "")
  /\ Enter("__init__", "", <<>>)
  /\ pc' = "idle"

-----------------------------------------------------------------------------
(* Operations of one request *)

\* a method that makes one _call and returns
one_call(name, rq) ==
  /\ pc = "idle"
  /\ \E rs \in Responses :
       /\ log' = call_log(<<>>, rq, rs, NoDigest)
       /\ err' = call_error(rq, rs)
  /\ default_headers' = call_default(rq)
  /\ Enter(name, "", <<>>)
  /\ pc' = "idle"
  /\ UNCHANGED <<session, caches>>

api_request(endpoint, params) ==
  Request(api_url, endpoint, TRUE, EmptyMap, params, TRUE, "get", <<>>)

ACCOUNT_ID == "acct"

create_bucket ==
  /\ constructed
  /\ \E b \in {"b1"}, private \in BOOLEAN :
       one_call("create_bucket",
                api_request("/b2_create_bucket",
                   Put(Put(Put(EmptyMap, "accountId", ACCOUNT_ID),
                           "bucketName", b),
                       "bucketType",
                       IF private THEN "allPrivate" ELSE "allPublic")))

delete_bucket ==
  /\ constructed
  /\ \E b \in {"b1"} :
       one_call("delete_bucket",
                api_request("/b2_delete_bucket",
                   Put(Put(EmptyMap, "accountId", ACCOUNT_ID), "bucketId", b)))

list_buckets ==
  /\ constructed
  /\ one_call("list_buckets",
              api_request("/b2_list_buckets",
                          Put(EmptyMap, "accountId", ACCOUNT_ID)))

list_files ==
  /\ constructed
  /\ \E b \in {"b1"}, start \in {"", "f1"}, limit \in {0, 2} :
       LET p0 == Put(EmptyMap, "bucketId", b)
           p1 == IF start # "" THEN Put(p0, "startFileId", start) ELSE p0
           p2 == IF limit # 0 THEN Put(p1, "maxFileCount", ToString(limit))
                 ELSE p1
       IN  one_call("list_files", api_request("/b2_list_file_versions", p2))

get_file_info ==
  /\ constructed
  /\ \E f \in {"f1"} :
       one_call("get_file_info",
                api_request("/b2_get_file_info", Put(EmptyMap, "fileId", f)))

delete_file ==
  /\ constructed
  /\ \E f \in {"f1"} :
       one_call("delete_file",
                api_request("/b2_delete_file_version",
                   Put(Put(EmptyMap, "fileId", f), "fileName", "name")))

\* byte_range is None or (0, 1)
download_file ==
  /\ constructed
  /\ \E f \in {"f1"}, ranged \in BOOLEAN :
       LET headers == IF ranged THEN Put(EmptyMap, "Range", "bytes=0-1")
                      ELSE EmptyMap
       IN  one_call("download_file",
                    Request(download_url, "/b2api/v1/b2_download_file_by_id",
                            FALSE, headers, Put(EmptyMap, "fileId", f),
                            TRUE, "get", <<>>))

\* _call invoked by itself, on the instance in whatever state it is
_call ==
  \E dflt \in BOOLEAN, requires_auth \in BOOLEAN :
     one_call("_call",
              Request(B2_API_BASE, "/b2_list_buckets", dflt,
                      IF dflt THEN EmptyMap ELSE Put(EmptyMap, "X-Test", "1"),
                      EmptyMap, requires_auth, "get", <<>>))

-----------------------------------------------------------------------------
(* upload_file: routing and the simple path *)

upload_file ==
  /\ pc = "idle"
  /\ constructed
  /\ \E b \in Buckets, c \in Payloads :
       /\ Enter("upload_file", b, c)
       /\ pc' = IF upload_file_large(c) THEN "large_start" ELSE "small"
  /\ log' = <<>>
  /\ err' = NoErr
  /\ UNCHANGED <<session, caches, default_headers>>

_get_upload_url ==
  /\ pc = "small"
  /\ need_upload_url(bucket_id)
  /\ \E rs \in Responses, target \in UploadTargets :
       LET rq == api_request("/b2_get_upload_url",
                             Put(EmptyMap, "bucketId", bucket_id))
           e == call_error(rq, rs)
       IN  /\ log' = call_log(log, rq, rs, NoDigest)
           /\ default_headers' = call_default(rq)
           /\ err' = e
           /\ upload_urls' = IF e = NoErr
                             THEN Put(upload_urls, bucket_id, target)
                             ELSE upload_urls
           /\ pc' = propagate(e, "small_post")
  /\ UNCHANGED <<session, file_upload_urls, entry, locals>>

upload_small ==
  /\ \/ pc = "small_post"
     \/ pc = "small" /\ ~need_upload_url(bucket_id)
  /\ \E rs \in Responses :
       LET target == upload_urls[bucket_id]
           headers ==
             [h \in {"Authorization", "X-Bz-File-Name", "Content-Type",
                     "Content-Length", "X-Bz-Content-Sha1"} |->
                CASE h = "Authorization" -> target[2]
                  [] h = "X-Bz-File-Name" -> "name"
                  [] h = "Content-Type" -> "b2/x-auto"
                  [] h = "Content-Length" -> ToString(Len(contents))
                  [] h = "X-Bz-Content-Sha1" -> sha1(contents)]
           rq == Request(target[1], "", FALSE, headers, EmptyMap, FALSE,
                         "post", contents)
       IN  /\ log' = call_log(log, rq, rs, NoDigest)
           /\ default_headers' = call_default(rq)
           /\ err' = call_error(rq, rs)
  /\ pc' = "idle"
  /\ UNCHANGED <<session, caches, entry, locals>>

-----------------------------------------------------------------------------
(* _upload_large_file *)

\* the method invoked by itself, with the payloads upload_file does not
\* route to it (with the others it runs as it does under upload_file)
_upload_large_file ==
  /\ pc = "idle"
  /\ constructed
  /\ \E b \in {"b1"}, c \in {p \in Payloads : ~upload_file_large(p)} :
       Enter("_upload_large_file", b, c)
  /\ pc' = "large_start"
  /\ log' = <<>>
  /\ err' = NoErr
  /\ UNCHANGED <<session, caches, default_headers>>

\* line 251, then the part count and the split of lines 252-259
_start_large_file_upload ==
  /\ pc = "large_start"
  /\ \E rs \in Responses, fid \in FileIds :
       LET rq == api_request("/b2_start_large_file",
                    Put(Put(Put(EmptyMap, "bucketId", bucket_id),
                            "fileName", "name"),
                        "contentType", "b2/x-auto"))
           e == call_error(rq, rs)
       IN  /\ log' = call_log(log, rq, rs, NoDigest)
           /\ default_headers' = call_default(rq)
           /\ IF e # NoErr
              THEN /\ err' = e
                   /\ pc' = propagate(e, "large_part")
                   /\ UNCHANGED <<file_id, parts>>
              ELSE /\ file_id' = fid
                   /\ IF num_parts(contents) < 2
                      THEN /\ err' = B2Error("too_small", 0, "")
                           /\ pc' = "idle"
                           /\ parts' = parts
                      ELSE /\ err' = NoErr
                           /\ pc' = "large_part"
                           /\ parts' = split_parts(contents)
  /\ UNCHANGED <<session, caches, entry, bucket_id, contents, hashes>>

_get_file_part_upload_url ==
  /\ pc = "large_part"
  /\ need_part_url(file_id)
  /\ \E rs \in Responses, target \in PartUploadTargets :
       LET rq == api_request("/b2_get_upload_part_url",
                             Put(EmptyMap, "fileId", file_id))
           e == call_error(rq, rs)
       IN  /\ log' = call_log(log, rq, rs, NoDigest)
           /\ default_headers' = call_default(rq)
           /\ err' = e
           /\ file_upload_urls' = IF e = NoErr
                                  THEN Put(file_upload_urls, file_id, target)
                                  ELSE file_upload_urls
           /\ pc' = propagate(e, "large_post")
  /\ UNCHANGED <<session, upload_urls, entry, locals>>

\* the upload of the next part: position Len(hashes), 0-based
_upload_large_file_part ==
  /\ \/ pc = "large_post"
     \/ pc = "large_part" /\ ~need_part_url(file_id)
  /\ Len(hashes) < Len(parts)
  /\ LET part == parts[Len(hashes) + 1]
         target == file_upload_urls[file_id]
         headers ==
           [h \in {"Authorization", "X-Bz-Part-Number", "Content-Length",
                   "X-Bz-Content-Sha1"} |->
              CASE h = "Authorization" -> target[2]
                [] h = "X-Bz-Part-Number" ->
                     ToString(part_number(Len(hashes)))
                [] h = "Content-Length" -> ToString(Len(part))
                [] h = "X-Bz-Content-Sha1" -> sha1(part)]
         rq == Request(target[1], "", FALSE, headers, EmptyMap, FALSE,
                       "post", part)
     IN  \E rs \in Responses :
         \E sha \in IF rs.status >= 400 THEN {NoDigest}
                     ELSE {sha1(part), BadDigest} :
           LET e == call_error(rq, rs)
           IN  /\ log' = call_log(log, rq, rs, sha)
               /\ default_headers' = call_default(rq)
               /\ err' = e
               /\ hashes' = IF e = NoErr
                            THEN Append(hashes, recorded_hash(part, sha))
                            ELSE hashes
               /\ pc' = propagate(e, IF Len(hashes') = Len(parts)
                                     THEN "large_finish" ELSE "large_part")
  /\ UNCHANGED <<session, caches, entry, bucket_id, contents, file_id, parts>>

_finish_large_file_upload ==
  /\ pc = "large_finish"
  /\ \E rs \in Responses :
       LET rq == Request(api_url, "/b2_finish_large_file", TRUE, EmptyMap,
                         EmptyMap, TRUE, "post", <<"json", file_id, hashes>>)
       IN  /\ log' = call_log(log, rq, rs, NoDigest)
           /\ default_headers' = call_default(rq)
           /\ err' = call_error(rq, rs)
  /\ pc' = "idle"
  /\ UNCHANGED <<session, caches, entry, locals>>

-----------------------------------------------------------------------------

Next ==
  \/ B2_init
  \/ create_bucket
  \/ delete_bucket
  \/ list_buckets
  \/ list_files
  \/ get_file_info
  \/ delete_file
  \/ download_file
  \/ _call
  \/ upload_file
  \/ _get_upload_url
  \/ upload_small
  \/ _upload_large_file
  \/ _start_large_file_upload
  \/ _get_file_part_upload_url
  \/ _upload_large_file_part
  \/ _finish_large_file_upload

Spec == Init /\ [][Next]_vars

TypeOK ==
  /\ pc \in {"idle", "small", "small_post", "large_start", "large_part",
             "large_post", "large_finish"}
  /\ contents \in Payloads
  /\ Len(hashes) <= Len(parts)

-----------------------------------------------------------------------------
(* Reading the record of requests *)

Last(s) == s[Len(s)]
Requests == 1..Len(log)

IsStart(e) == e.endpoint = "/b2_start_large_file"
IsFinish(e) == e.endpoint = "/b2_finish_large_file"
IsGetUploadUrl(e) == e.endpoint = "/b2_get_upload_url"
IsGetPartUrl(e) == e.endpoint = "/b2_get_upload_part_url"
IsPartUpload(e) == "X-Bz-Part-Number" \in DOMAIN e.sent
IsSmallUpload(e) == "X-Bz-File-Name" \in DOMAIN e.sent

PartUploads == {i \in Requests : IsPartUpload(log[i])}
SmallUploads == {i \in Requests : IsSmallUpload(log[i])}
\* the position of request i among the part uploads
Rank(i) == Cardinality({j \in PartUploads : j <= i})

RECURSIVE Concat(_)
Concat(ss) == IF ss = <<>> THEN <<>> ELSE Head(ss) \o Concat(Tail(ss))

\* the bodies of the part uploads, in the order they were sent
RECURSIVE Bodies(_)
Bodies(lg) ==
  IF lg = <<>> THEN <<>>
  ELSE IF IsPartUpload(Head(lg)) THEN <<Head(lg).data>> \o Bodies(Tail(lg))
       ELSE Bodies(Tail(lg))

LargePath == log # <<>> /\ IsStart(log[1])

-----------------------------------------------------------------------------
(* C1 *)

\* C1: when _upload_large_file fails with the too-small error (the computed
\* part count is below 2), no request has been handed to the transport; in
\* particular no "start large file" request.
C1_TooSmallBeforeAnyRequest ==
  err.kind = "too_small" => log = <<>>

-----------------------------------------------------------------------------
(* C2 *)

\* C2: every answer with a status of 400 or more, whatever the form of its
\* body, ends the operation with a B2Error that carries that status and the
\* requested URL.
C2_ErrorStatusRaisesB2Error ==
  \A i \in Requests :
    log[i].status >= 400 =>
      /\ err.type = "B2Error"
      /\ err.code = log[i].status
      /\ err.where = log[i].url

-----------------------------------------------------------------------------
(* C3 *)

\* C3: the headers a call sends are the headers passed to it, plus the
\* Authorization header with the session token exactly when requires_auth
\* holds; a call without headers argument and without requires_auth sends
\* no Authorization header.
C3_SentHeadersAreThePassedOnes ==
  \A i \in Requests :
    log[i].sent = IF log[i].requires_auth
                  THEN Put(log[i].passed, "Authorization", log[i].token)
                  ELSE log[i].passed

-----------------------------------------------------------------------------
(* C4 *)

\* C4: upload_file with a payload no longer than the part size makes no
\* "start large file", part-URL, part-upload or "finish" request and one
\* upload POST (none only when fetching the upload target failed); with a
\* longer payload its first request is "start large file" and it never
\* asks for or posts to the bucket's upload URL.
C4_RoutingByLength ==
  entry = "upload_file" =>
    /\ Len(contents) <= file_part_size =>
         /\ \A i \in Requests :
              /\ ~IsStart(log[i])
              /\ ~IsGetPartUrl(log[i])
              /\ ~IsPartUpload(log[i])
              /\ ~IsFinish(log[i])
         /\ Cardinality(SmallUploads) <= 1
         /\ pc = "idle" =>
              \/ Cardinality(SmallUploads) = 1
              \/ /\ IsGetUploadUrl(Last(log))
                 /\ Last(log).status >= 400
    /\ Len(contents) > file_part_size =>
         /\ \A i \in Requests :
              /\ ~IsSmallUpload(log[i])
              /\ ~IsGetUploadUrl(log[i])
         /\ pc # "large_start" => LargePath

\* a payload of exactly the part size was uploaded the simple way
C4_Witness ==
  /\ entry = "upload_file"
  /\ pc = "idle"
  /\ err = NoErr
  /\ Len(contents) = file_part_size
  /\ Cardinality(SmallUploads) = 1

-----------------------------------------------------------------------------
(* C5 *)

\* C5: a payload longer than the part size is split into
\* floor(len / size) + 1 parts, all but the last of exactly the part size,
\* the last of len mod size bytes; the parts, and the bodies sent once all
\* parts are uploaded, concatenate to the payload.
C5_PartsRoundTrip ==
  (parts # <<>> /\ Len(contents) > file_part_size) =>
    /\ Len(parts) = (Len(contents) \div file_part_size) + 1
    /\ \A k \in 1..(Len(parts) - 1) : Len(parts[k]) = file_part_size
    /\ Len(Last(parts)) = Len(contents) % file_part_size
    /\ Concat(parts) = contents
    /\ pc = "large_finish" => Concat(Bodies(log)) = contents

\* all parts of a payload that is an exact multiple of the part size are
\* uploaded, the last one empty
C5_Witness ==
  /\ pc = "large_finish"
  /\ Len(contents) > file_part_size
  /\ Len(contents) % file_part_size = 0
  /\ Last(parts) = <<>>
  /\ Len(Bodies(log)) = Len(parts)

-----------------------------------------------------------------------------
(* C6 *)

\* C6: the part uploads carry the part numbers 1, 2, ... in the order they
\* are sent, each one is sent after the one before it was answered with
\* success, and "finish large file" is sent after all n parts with the list
\* of the n contentSha1 values the remote side returned, in part order.
C6_PartsInOrder ==
  /\ \A i \in PartUploads :
       /\ log[i].sent["X-Bz-Part-Number"] = ToString(Rank(i))
       /\ log[i].data = parts[Rank(i)]
       /\ \A j \in PartUploads : j < i => log[j].status < 400
  /\ \A i \in Requests :
       IsFinish(log[i]) =>
         /\ i = Len(log)
         /\ Cardinality(PartUploads) = Len(parts)
         /\ \A j \in PartUploads : log[j].status < 400
         /\ log[i].data[2] = file_id
         /\ Len(log[i].data[3]) = Len(parts)
         /\ \A j \in PartUploads : log[i].data[3][Rank(j)] = log[j].sha

\* a file of at least three parts was finished, one of the digests the
\* remote side returned not being the digest the client computed
C6_Witness ==
  /\ pc = "idle"
  /\ err = NoErr
  /\ log # <<>>
  /\ IsFinish(Last(log))
  /\ Len(parts) >= 3
  /\ \E j \in PartUploads : log[j].sha # log[j].sent["X-Bz-Content-Sha1"]

-----------------------------------------------------------------------------
(* C7 *)

IsFetchStep(IsFetch(_)) ==
  /\ log' # log
  /\ log' # <<>>
  /\ IsFetch(Last(log'))

\* within a session (between two constructions) a cache entry is never
\* removed or changed; a target is fetched only for a key that is absent
\* from its cache; a simple upload makes its POST after at most one fetch,
\* and a large upload makes at most one part-URL fetch, right before part 1.
C7_Step ==
  /\ entry' # "__init__" =>
       /\ \A b \in DOMAIN upload_urls :
            b \in DOMAIN upload_urls' /\ upload_urls'[b] = upload_urls[b]
       /\ \A f \in DOMAIN file_upload_urls :
            /\ f \in DOMAIN file_upload_urls'
            /\ file_upload_urls'[f] = file_upload_urls[f]
  /\ IsFetchStep(IsGetUploadUrl) =>
       Last(log').params["bucketId"] \notin DOMAIN upload_urls
  /\ IsFetchStep(IsGetPartUrl) =>
       Last(log').params["fileId"] \notin DOMAIN file_upload_urls
  /\ \A i \in 1..Len(log') :
       /\ IsSmallUpload(log'[i]) =>
            /\ i <= 2
            /\ i = 2 => IsGetUploadUrl(log'[1]) /\ log'[1].status < 400
            /\ bucket_id' \in DOMAIN upload_urls'
            /\ log'[i].url = upload_urls'[bucket_id'][1]
       /\ IsGetPartUrl(log'[i]) => i = 2
       /\ IsPartUpload(log'[i]) =>
            /\ file_id' \in DOMAIN file_upload_urls'
            /\ log'[i].url = file_upload_urls'[file_id'][1]

\* C7: every step keeps the cached targets, fetches a target only for an
\* absent key and leaves a record of requests of the shape above.
C7_LazyCaches == [][C7_Step]_vars

\* a simple upload to a bucket whose target is cached: one POST, no fetch
C7_Witness ==
  /\ entry = "upload_file"
  /\ pc = "idle"
  /\ err = NoErr
  /\ Len(log) = 1
  /\ IsSmallUpload(log[1])

-----------------------------------------------------------------------------
(* C8 *)

\* C8: _call with requires_auth on a session whose token is None or empty
\* raises the B2Error that names the endpoint and hands nothing to the
\* transport; no request with requires_auth is ever made without a token.
C8_UnauthenticatedCall ==
  /\ \A i \in Requests :
       log[i].requires_auth => log[i].token \notin {None, ""}
  /\ (entry = "_call" /\ auth_token \in {None, ""}) =>
       \/ /\ log = <<>>
          /\ err = B2Error("unauthorized", 0, "/b2_list_buckets")
       \/ /\ Len(log) = 1
          /\ ~log[1].requires_auth
  /\ err.kind = "unauthorized" => log = <<>>

\* _call with requires_auth was refused on a session with an empty token
C8_Witness ==
  /\ entry = "_call"
  /\ auth_token = ""
  /\ err.kind = "unauthorized"

-----------------------------------------------------------------------------
(* C9 *)

\* C9: in a large upload a request answered with a status of 400 or more is
\* the last request of the operation: the operation has ended with the
\* error _call raised for it, no later part, retry, "finish" or cleanup
\* request follows.
C9_FailureAborts ==
  LargePath =>
    \A i \in Requests :
      log[i].status >= 400 =>
        /\ i = Len(log)
        /\ pc = "idle"
        /\ err = IF log[i].json
                 THEN B2Error("status", log[i].status, log[i].url)
                 ELSE JSONDecodeError

\* the upload of a part after the first failed
C9_Witness ==
  /\ LargePath
  /\ pc = "idle"
  /\ Len(hashes) >= 1
  /\ Len(hashes) < Len(parts)
  /\ IsPartUpload(Last(log))
  /\ Last(log).status >= 400

-----------------------------------------------------------------------------
(* C10 *)

\* C10: a large upload reached through upload_file has at least two parts
\* and never ends with the too-small error.
C10_AtLeastTwoParts ==
  entry = "upload_file" =>
    /\ err.kind # "too_small"
    /\ (LargePath /\ Last(log).status < 400) => Len(parts) >= 2

\* upload_file routed a payload one byte longer than the part size
C10_Witness ==
  /\ entry = "upload_file"
  /\ pc = "large_part"
  /\ Len(contents) = file_part_size + 1
  /\ Len(parts) = 2
====
